---- MODULE Spec2Model ----
(***************************************************************************)
(* State-machine model of the todo-swamp list engines.                     *)
(*                                                                         *)
(*   TodoList    the linear baseline  (src/src/todo_list.rs 136-198)       *)
(*   TriedoList  the indexed engine   (src/src/todo_list.rs 212-291)       *)
(*                                                                         *)
(* Both lists receive the same sequence of push / done_with_index / search *)
(* calls, the way runner::run_line drives any TodoLister.  The trie module *)
(* (trie.rs) is not part of the available sources; Trie_new, Trie_add,     *)
(* Trie_delete and Trie_search follow the contract of spec.md section 4.1  *)
(* (arena of nodes plus a reverse map).                                    *)
(*                                                                         *)
(* Strings are sequences of one-character strings.  Index is a u64; the    *)
(* counter stays far below 2^64 within the bounds, so no wrap is modelled. *)
(***************************************************************************)
EXTENDS Integers, Sequences, FiniteSets, TLC

VARIABLES tl, tr, last, pushes, completed, ts, drv

vars == <<tl, tr, last, pushes, completed, ts, drv>>

(***************************************************************************)
(* Bounds and inputs                                                       *)
(***************************************************************************)
MaxItems == 2

\* Identifiers of the stand-alone trie runs and lines of a driver's input.
MaxTrieId == 1
MaxLines == 4

buy    == <<"b", "u", "y">>
milk   == <<"m", "i", "l", "k">>
bread  == <<"b", "r", "e", "a", "d">>
errand == <<"e", "r", "r", "a", "n", "d">>

\* The (description, tags) pairs a push may carry: the two items of the
\* spec's scenario, an item with a repeated word and a repeated tag, and an
\* item with no word at all.
PushInputs ==
    { [description |-> <<buy, milk>>,  tags |-> <<errand>>],
      [description |-> <<buy, bread>>, tags |-> <<>>],
      [description |-> <<milk, milk>>, tags |-> <<errand, errand>>],
      [description |-> <<>>,           tags |-> <<bread>>] }

\* Identifiers a completion may name: every identifier that can exist and one
\* that never does.
DoneIds == 0..MaxItems

\* Term strings: the empty string, proper prefixes, whole words, a substring
\* that is no prefix ("uy", "rd"), a subsequence that is no substring ("mk"),
\* and a key whose second character has no edge ("bx").
WordTermStrings == { <<>>, <<"b">>, buy, <<"u", "y">>, <<"m", "k">>, <<"b", "x">> }
TagTermStrings  == { <<"e">>, errand, <<"r", "d">> }

(***************************************************************************)
(* Option<T>                                                               *)
(***************************************************************************)
None == <<>>
Some(x) == <<x>>

(***************************************************************************)
(* SearchWordOrTag and SearchParams                                        *)
(***************************************************************************)
RawWord(s) == [kind |-> "RawWord", s |-> s]
RawTag(s)  == [kind |-> "RawTag",  s |-> s]

Terms == { RawWord(s) : s \in WordTermStrings } \cup { RawTag(s) : s \in TagTermStrings }

\* Queries of zero, one and two terms.
QueryLengths == 0..2
Queries == UNION { [1..n -> Terms] : n \in QueryLengths }

(***************************************************************************)
(* TodoItem                                                                *)
(***************************************************************************)
TodoItem_new(index, description, tags, done) ==
    [index |-> index, description |-> description, tags |-> tags, done |-> done]

(***************************************************************************)
(* slice::binary_search_by_key(&idx, |item| item.index)                    *)
(***************************************************************************)
RECURSIVE binary_search_from(_, _, _, _)
binary_search_from(items, idx, lo, hi) ==
    IF lo >= hi
    THEN [ok |-> FALSE, n |-> lo]
    ELSE LET mid == lo + ((hi - lo) \div 2)
             key == items[mid + 1].index
         IN  IF key = idx THEN [ok |-> TRUE, n |-> mid]
             ELSE IF key < idx THEN binary_search_from(items, idx, mid + 1, hi)
             ELSE binary_search_from(items, idx, lo, mid)

\* Variant: a miss saturates to the last position instead of reporting Err.
binary_search_saturating(items, idx) ==
    LET r == binary_search_from(items, idx, 0, Len(items))
    IN  IF r.ok \/ Len(items) = 0 THEN r ELSE [ok |-> TRUE, n |-> Len(items) - 1]

binary_search_by_key(items, idx) == binary_search_from(items, idx, 0, Len(items))

(***************************************************************************)
(* match_subsequence                                                       *)
(***************************************************************************)
RECURSIVE match_subsequence_from(_, _, _, _)
match_subsequence_from(sequence, subsequence, k, i) ==
    IF k > Len(sequence) THEN FALSE
    ELSE IF sequence[k] = subsequence[i + 1]
         THEN IF i + 1 = Len(subsequence) THEN TRUE
              ELSE match_subsequence_from(sequence, subsequence, k + 1, i + 1)
         ELSE match_subsequence_from(sequence, subsequence, k + 1, i)

\* Variant: the term must be a prefix of the string.
match_subsequence_prefix(sequence, subsequence) ==
    /\ Len(subsequence) <= Len(sequence)
    /\ \A k \in 1..Len(subsequence) : sequence[k] = subsequence[k]

\* Variant: the term must equal the string.
match_subsequence_exact(sequence, subsequence) == sequence = subsequence

match_subsequence(sequence, subsequence) ==
    IF Len(subsequence) = 0 THEN TRUE
    ELSE match_subsequence_from(sequence, subsequence, 1, 0)

(***************************************************************************)
(* TodoList: the linear baseline                                           *)
(***************************************************************************)
TodoList_new == [top_index |-> 0, items |-> <<>>]

\* Variant: the counter advances by two.
TodoList_push_skips(self, description, tags) ==
    LET item == TodoItem_new(self.top_index, description, tags, FALSE)
    IN  [self |-> [top_index |-> self.top_index + 2,
                   items     |-> Append(self.items, item)],
         ret  |-> item]

TodoList_push(self, description, tags) ==
    LET item == TodoItem_new(self.top_index, description, tags, FALSE)
    IN  [self |-> [top_index |-> self.top_index + 1,
                   items     |-> Append(self.items, item)],
         ret  |-> item]

TodoList_done_with_index(self, idx) ==
    LET r == binary_search_by_key(self.items, idx)
    IN  IF r.ok
        THEN [self |-> [self EXCEPT !.items[r.n + 1].done = TRUE], ret |-> Some(idx)]
        ELSE [self |-> self, ret |-> None]

\* One item against every search parameter (the 'param loop).
TodoList_matches(item, params) ==
    \A p \in 1..Len(params) :
        IF params[p].kind = "RawWord"
        THEN \E w \in 1..Len(item.description) :
                 match_subsequence(item.description[w], params[p].s)
        ELSE \E t \in 1..Len(item.tags) :
                 match_subsequence(item.tags[t], params[p].s)

\* Variant: done items are searched too.
TodoList_keeps_done(item, params) == TodoList_matches(item, params)

TodoList_keeps(item, params) == ~item.done /\ TodoList_matches(item, params)

TodoList_search(self, params) ==
    LET Keep(item) == TodoList_keeps(item, params)
    IN  SelectSeq(self.items, Keep)

(***************************************************************************)
(* Trie (contract of spec.md 4.1): an arena of nodes, node 1 the root, and *)
(* the reverse map from an identifier to the nodes it was inserted into.   *)
(***************************************************************************)
NoChildren == [c \in {} |-> 0]

TrieNode_new == [children |-> NoChildren, ids |-> {}]

Trie_new == [nodes |-> <<TrieNode_new>>, rev |-> [i \in {} |-> {}]]

\* Variant: inserting an identifier a node already holds removes it.
Trie_touch_toggles(t, id, n) ==
    [nodes |-> [t.nodes EXCEPT ![n].ids = IF id \in @ THEN @ \ {id} ELSE @ \cup {id}],
     rev   |-> IF id \in DOMAIN t.rev
               THEN [t.rev EXCEPT ![id] = @ \cup {n}]
               ELSE t.rev @@ (id :> {n})]

\* Insert id at node n and remember the touch in the reverse map.
Trie_touch(t, id, n) ==
    [nodes |-> [t.nodes EXCEPT ![n].ids = @ \cup {id}],
     rev   |-> IF id \in DOMAIN t.rev
               THEN [t.rev EXCEPT ![id] = @ \cup {n}]
               ELSE t.rev @@ (id :> {n})]

RECURSIVE Trie_add_from(_, _, _, _, _)
Trie_add_from(t, id, key, k, n) ==
    LET t1 == Trie_touch(t, id, n)
    IN  IF k > Len(key) THEN t1
        ELSE LET c == key[k]
             IN  IF c \in DOMAIN t1.nodes[n].children
                 THEN Trie_add_from(t1, id, key, k + 1, t1.nodes[n].children[c])
                 ELSE LET m  == Len(t1.nodes) + 1
                          t2 == [t1 EXCEPT
                                   !.nodes = Append(
                                       [t1.nodes EXCEPT ![n].children = @ @@ (c :> m)],
                                       TrieNode_new)]
                      IN  Trie_add_from(t2, id, key, k + 1, m)

Trie_add(t, id, key) == Trie_add_from(t, id, key, 1, 1)

\* Variant: the identifier is removed from the root only.
Trie_delete_root_only(t, id) ==
    IF id \notin DOMAIN t.rev THEN t
    ELSE [nodes |-> [t.nodes EXCEPT ![1].ids = @ \ {id}],
          rev   |-> [i \in DOMAIN t.rev \ {id} |-> t.rev[i]]]

Trie_delete(t, id) ==
    IF id \notin DOMAIN t.rev THEN t
    ELSE [nodes |-> [n \in DOMAIN t.nodes |->
                        IF n \in t.rev[id]
                        THEN [t.nodes[n] EXCEPT !.ids = @ \ {id}]
                        ELSE t.nodes[n]],
          rev   |-> [i \in DOMAIN t.rev \ {id} |-> t.rev[i]]]

RECURSIVE Trie_search_from(_, _, _, _)
Trie_search_from(t, key, k, n) ==
    IF k > Len(key) THEN t.nodes[n].ids
    ELSE IF key[k] \in DOMAIN t.nodes[n].children
         THEN Trie_search_from(t, key, k + 1, t.nodes[n].children[key[k]])
         ELSE {}

Trie_search(t, key) == Trie_search_from(t, key, 1, 1)

(***************************************************************************)
(* TriedoList: the indexed engine                                          *)
(***************************************************************************)
TriedoList_new ==
    [top_index |-> 0, items |-> <<>>, words |-> Trie_new, tags |-> Trie_new]

\* for s in &keys { trie.add(id, s) }
RECURSIVE Trie_add_each(_, _, _, _)
Trie_add_each(t, id, keys, k) ==
    IF k > Len(keys) THEN t
    ELSE Trie_add_each(Trie_add(t, id, keys[k]), id, keys, k + 1)

\* Variant: the counter is not advanced after the push.
TriedoList_push_keeps_counter(self, description, tags) ==
    LET words1 == Trie_add_each(self.words, self.top_index, description, 1)
        tags1  == Trie_add_each(self.tags, self.top_index, tags, 1)
        item   == TodoItem_new(self.top_index, description, tags, FALSE)
    IN  [self |-> [top_index |-> self.top_index,
                   items     |-> Append(self.items, item),
                   words     |-> words1,
                   tags      |-> tags1],
         ret  |-> item]

\* Variant: the counter is advanced before the words and tags are indexed.
TriedoList_push_indexes_next(self, description, tags) ==
    LET words1 == Trie_add_each(self.words, self.top_index + 1, description, 1)
        tags1  == Trie_add_each(self.tags, self.top_index + 1, tags, 1)
        item   == TodoItem_new(self.top_index, description, tags, FALSE)
    IN  [self |-> [top_index |-> self.top_index + 1,
                   items     |-> Append(self.items, item),
                   words     |-> words1,
                   tags      |-> tags1],
         ret  |-> item]

TriedoList_push(self, description, tags) ==
    LET words1 == Trie_add_each(self.words, self.top_index, description, 1)
        tags1  == Trie_add_each(self.tags, self.top_index, tags, 1)
        item   == TodoItem_new(self.top_index, description, tags, FALSE)
    IN  [self |-> [top_index |-> self.top_index + 1,
                   items     |-> Append(self.items, item),
                   words     |-> words1,
                   tags      |-> tags1],
         ret  |-> item]

\* Variant: the word index is not purged.
TriedoList_done_keeps_words(self, idx) ==
    LET r == binary_search_by_key(self.items, idx)
    IN  IF r.ok
        THEN [self |-> [self EXCEPT !.items[r.n + 1].done = TRUE], ret |-> Some(idx)]
        ELSE [self |-> self, ret |-> None]

\* Variant: the tag index is purged in place of the word index.
TriedoList_done_purges_tags(self, idx) ==
    LET self1 == [self EXCEPT !.tags = Trie_delete(self.tags, idx)]
        r     == binary_search_by_key(self1.items, idx)
    IN  IF r.ok
        THEN [self |-> [self1 EXCEPT !.items[r.n + 1].done = TRUE], ret |-> Some(idx)]
        ELSE [self |-> self1, ret |-> None]

\* Variant: both indexes are purged.
TriedoList_done_purges_both(self, idx) ==
    LET self1 == [self EXCEPT !.words = Trie_delete(self.words, idx),
                              !.tags  = Trie_delete(self.tags, idx)]
        r     == binary_search_by_key(self1.items, idx)
    IN  IF r.ok
        THEN [self |-> [self1 EXCEPT !.items[r.n + 1].done = TRUE], ret |-> Some(idx)]
        ELSE [self |-> self1, ret |-> None]

\* Variant: the done flag is toggled instead of set.
TriedoList_done_toggles(self, idx) ==
    LET self1 == [self EXCEPT !.words = Trie_delete(self.words, idx)]
        r     == binary_search_by_key(self1.items, idx)
    IN  IF r.ok
        THEN [self |-> [self1 EXCEPT !.items[r.n + 1].done = ~@], ret |-> Some(idx)]
        ELSE [self |-> self1, ret |-> None]

\* Variant: the completed item is removed from the item sequence.
TriedoList_done_removes_item(self, idx) ==
    LET self1 == [self EXCEPT !.words = Trie_delete(self.words, idx)]
        r     == binary_search_by_key(self1.items, idx)
        Other(item) == item.index # idx
    IN  IF r.ok
        THEN [self |-> [self1 EXCEPT !.items = SelectSeq(@, Other)], ret |-> Some(idx)]
        ELSE [self |-> self1, ret |-> None]

TriedoList_done_with_index(self, idx) ==
    LET self1 == [self EXCEPT !.words = Trie_delete(self.words, idx)]
        r     == binary_search_by_key(self1.items, idx)
    IN  IF r.ok
        THEN [self |-> [self1 EXCEPT !.items[r.n + 1].done = TRUE], ret |-> Some(idx)]
        ELSE [self |-> self1, ret |-> None]

\* Variant: the two indexes are swapped.
TriedoList_lookup_swapped(self, param) ==
    IF param.kind = "RawWord"
    THEN Trie_search(self.tags, param.s)
    ELSE Trie_search(self.words, param.s)

\* self.words.search(w) / self.tags.search(t), by the kind of the parameter.
TriedoList_lookup(self, param) ==
    IF param.kind = "RawWord"
    THEN Trie_search(self.words, param.s)
    ELSE Trie_search(self.tags, param.s)

\* Variant: the fold unites the term results instead of intersecting them.
RECURSIVE TriedoList_intersect_unites(_, _, _, _)
TriedoList_intersect_unites(self, params, k, indices) ==
    IF k > Len(params) THEN indices
    ELSE TriedoList_intersect_unites(self, params, k + 1,
                                     indices \cup TriedoList_lookup(self, params[k]))

\* Variant: each further term replaces the running candidate set.
RECURSIVE TriedoList_intersect_overwrites(_, _, _, _)
TriedoList_intersect_overwrites(self, params, k, indices) ==
    IF k > Len(params) THEN indices
    ELSE TriedoList_intersect_overwrites(self, params, k + 1,
                                         TriedoList_lookup(self, params[k]))

\* The fold over the parameters after the first.
RECURSIVE TriedoList_intersect(_, _, _, _)
TriedoList_intersect(self, params, k, indices) ==
    IF k > Len(params) THEN indices
    ELSE TriedoList_intersect(self, params, k + 1,
                              indices \cap TriedoList_lookup(self, params[k]))

\* &self.items[*index as usize] panics when the index is out of bounds.
TriedoList_materialize(self, indices) ==
    IF \E index \in indices : index >= Len(self.items)
    THEN [panicked |-> TRUE, results |-> {}]
    ELSE [panicked |-> FALSE, results |-> { self.items[index + 1] : index \in indices }]

\* Variant: no early return, the empty query matches every indexed word.
TriedoList_search_empty_matches(self, params) ==
    IF Len(params) = 0
    THEN TriedoList_materialize(self, Trie_search(self.words, <<>>))
    ELSE TriedoList_materialize(self,
             TriedoList_intersect(self, params, 2, TriedoList_lookup(self, params[1])))

TriedoList_search(self, params) ==
    IF Len(params) = 0
    THEN [panicked |-> FALSE, results |-> {}]
    ELSE TriedoList_materialize(self,
             TriedoList_intersect(self, params, 2, TriedoList_lookup(self, params[1])))

(***************************************************************************)
(* The state machine: one call at a time, applied to both lists.  last     *)
(* records the most recent call, its arguments and what each list          *)
(* returned (again: a done_with_index on an identifier completed before).  *)
(* pushes counts the push calls made so far and completed holds the        *)
(* identifiers for which done_with_index has returned Some.                *)
(***************************************************************************)
NoCall ==
    [op |-> "new", description |-> <<>>, tags |-> <<>>, idx |-> 0, params |-> <<>>,
     again |-> FALSE, tl_ret |-> <<>>, tr_ret |-> <<>>]

\* The stand-alone trie before any call: live holds the (identifier, key)
\* pairs added since the identifier's last delete.
TrieIdle ==
    [trie |-> Trie_new, live |-> {}, op |-> "new", key |-> <<>>, ret |-> {}]

\* A driver run over an input: each driver's position in the input (lines
\* taken from the iterator), the lines it has written, and where it stands.
Driver_new(input) ==
    [input |-> input,
     file  |-> [status |-> "start", pos |-> 0, out |-> <<>>],
     std   |-> [status |-> "start", pos |-> 0, out |-> <<>>]]

ListsInit ==
    /\ tl = TodoList_new
    /\ tr = TriedoList_new
    /\ last = NoCall
    /\ pushes = 0
    /\ completed = {}

Init ==
    /\ ListsInit
    /\ ts = TrieIdle
    /\ drv = Driver_new(<<>>)

Push(description, tags) ==
    /\ pushes < MaxItems
    /\ LET a == TodoList_push(tl, description, tags)
           b == TriedoList_push(tr, description, tags)
       IN  /\ tl' = a.self
           /\ tr' = b.self
           /\ last' = [NoCall EXCEPT !.op = "push", !.description = description,
                                     !.tags = tags, !.tl_ret = a.ret, !.tr_ret = b.ret]
    /\ pushes' = pushes + 1
    /\ UNCHANGED <<completed, ts, drv>>

DoneWithIndex(idx) ==
    /\ LET a == TodoList_done_with_index(tl, idx)
           b == TriedoList_done_with_index(tr, idx)
       IN  /\ tl' = a.self
           /\ tr' = b.self
           /\ last' = [NoCall EXCEPT !.op = "done_with_index", !.idx = idx,
                                     !.again = (idx \in completed),
                                     !.tl_ret = a.ret, !.tr_ret = b.ret]
           /\ completed' = IF b.ret = Some(idx) THEN completed \cup {idx} ELSE completed
    /\ UNCHANGED <<pushes, ts, drv>>

\* Variant: a search drops the completed identifiers from the tag index.
Search_purges(params) ==
    /\ last' = [NoCall EXCEPT !.op = "search", !.params = params,
                              !.tl_ret = TodoList_search(tl, params),
                              !.tr_ret = TriedoList_search(tr, params)]
    /\ tr' = [tr EXCEPT !.tags.nodes =
                  [n \in DOMAIN @ |-> [@[n] EXCEPT !.ids = @ \ completed]]]
    /\ UNCHANGED <<tl, pushes, completed, ts, drv>>

Search(params) ==
    /\ last' = [NoCall EXCEPT !.op = "search", !.params = params,
                              !.tl_ret = TodoList_search(tl, params),
                              !.tr_ret = TriedoList_search(tr, params)]
    /\ UNCHANGED <<tl, tr, pushes, completed, ts, drv>>

Next ==
    \/ \E input \in PushInputs : Push(input.description, input.tags)
    \/ \E idx \in DoneIds : DoneWithIndex(idx)
    \/ \E params \in Queries : Search(params)

Spec == Init /\ [][Next]_vars

(***************************************************************************)
(* One trie on its own: add, delete and search in any order, with any      *)
(* identifier and key, re-adding after a delete included.                  *)
(***************************************************************************)
TrieIdSet == 0..MaxTrieId

TrieKeys == { <<>>, <<"b">>, buy, milk }

\* Keys looked up: the root, prefixes, whole keys, keys with a missing edge
\* at the first, second and last position.
TrieProbes ==
    { <<>>, <<"b">>, buy, <<"m", "i">>, <<"u", "y">>, <<"b", "x">>,
      <<"b", "u", "y", "s">> }

TrieAdd(id, key) ==
    /\ ts' = [trie |-> Trie_add(ts.trie, id, key),
              live |-> ts.live \cup {<<id, key>>},
              op |-> "add", key |-> key, ret |-> {}]
    /\ UNCHANGED <<tl, tr, last, pushes, completed, drv>>

TrieDelete(id) ==
    /\ ts' = [trie |-> Trie_delete(ts.trie, id),
              live |-> { p \in ts.live : p[1] # id },
              op |-> "delete", key |-> <<>>, ret |-> {}]
    /\ UNCHANGED <<tl, tr, last, pushes, completed, drv>>

TrieSearch(key) ==
    /\ ts' = [ts EXCEPT !.op = "search", !.key = key,
                        !.ret = Trie_search(ts.trie, key)]
    /\ UNCHANGED <<tl, tr, last, pushes, completed, drv>>

TrieNext ==
    \/ \E id \in TrieIdSet, key \in TrieKeys : TrieAdd(id, key)
    \/ \E id \in TrieIdSet : TrieDelete(id)
    \/ \E key \in TrieProbes : TrieSearch(key)

TrieSpec == Init /\ [][TrieNext]_vars

(***************************************************************************)
(* The two drivers of lib.rs, file_run and standard_run, over one input.   *)
(* A line of the input is known by what happens to it: run_line yields a   *)
(* result for it, run_line yields nothing for it, or the line iterator     *)
(* fails to read it.  A written line is recorded as the position of the    *)
(* input line it answers.                                                  *)
(***************************************************************************)
LineKinds == { "result", "nothing", "unreadable" }

DriverInputs == UNION { [1..n -> LineKinds] : n \in 0..MaxLines }

\* runner::run_line(&l, &mut tl): Some(r) or None.
run_line(line) == IF line = "result" THEN Some(line) ELSE None

\* if let Some(Ok(_s)) = lines_in.next(): the first line is taken and dropped.
driver_first_line(input, d) ==
    IF Len(input) >= 1 /\ input[1] # "unreadable"
    THEN [d EXCEPT !.status = "loop", !.pos = 1]
    ELSE [d EXCEPT !.status = "returned", !.pos = IF Len(input) >= 1 THEN 1 ELSE 0]

\* Variant: a line without a result is passed over.
file_run_step_skips(input, d) ==
    IF d.status = "start" THEN driver_first_line(input, d)
    ELSE IF d.pos >= Len(input) THEN [d EXCEPT !.status = "returned"]
    ELSE LET k == d.pos + 1
         IN  IF input[k] = "unreadable" THEN [d EXCEPT !.pos = k]
             ELSE IF run_line(input[k]) # None
                  THEN [d EXCEPT !.pos = k, !.out = Append(@, k)]
                  ELSE [d EXCEPT !.pos = k]

\* One step of file_run: the first line, or one turn of the for loop.
file_run_step(input, d) ==
    IF d.status = "start" THEN driver_first_line(input, d)
    ELSE IF d.pos >= Len(input) THEN [d EXCEPT !.status = "returned"]
    ELSE LET k == d.pos + 1
         IN  IF input[k] = "unreadable" THEN [d EXCEPT !.pos = k]
             ELSE IF run_line(input[k]) # None
                  THEN [d EXCEPT !.pos = k, !.out = Append(@, k)]
                  ELSE [d EXCEPT !.pos = k, !.status = "panicked"]

\* One step of standard_run: the first line, or one turn of the for loop.
standard_run_step(input, d) ==
    IF d.status = "start" THEN driver_first_line(input, d)
    ELSE IF d.pos >= Len(input) THEN [d EXCEPT !.status = "returned"]
    ELSE LET k == d.pos + 1
         IN  IF input[k] = "unreadable" THEN [d EXCEPT !.pos = k]
             ELSE IF run_line(input[k]) # None
                  THEN [d EXCEPT !.pos = k, !.out = Append(@, k)]
                  ELSE [d EXCEPT !.pos = k]

Running(d) == d.status \in { "start", "loop" }

FileRunStep ==
    /\ Running(drv.file)
    /\ drv' = [drv EXCEPT !.file = file_run_step(drv.input, drv.file)]
    /\ UNCHANGED <<tl, tr, last, pushes, completed, ts>>

StandardRunStep ==
    /\ Running(drv.std)
    /\ drv' = [drv EXCEPT !.std = standard_run_step(drv.input, drv.std)]
    /\ UNCHANGED <<tl, tr, last, pushes, completed, ts>>

DriverInit ==
    /\ ListsInit
    /\ ts = TrieIdle
    /\ \E input \in DriverInputs : drv = Driver_new(input)

DriverNext == FileRunStep \/ StandardRunStep

DriverSpec == DriverInit /\ [][DriverNext]_vars

(***************************************************************************)
(* Vocabulary of the properties                                            *)
(***************************************************************************)
IsPrefix(p, s) == Len(p) <= Len(s) /\ SubSeq(s, 1, Len(p)) = p

HasWordWithPrefix(item, p) ==
    \E w \in 1..Len(item.description) : IsPrefix(p, item.description[w])

HasTagWithPrefix(item, p) ==
    \E t \in 1..Len(item.tags) : IsPrefix(p, item.tags[t])

ItemsOf(self) == { self.items[n] : n \in 1..Len(self.items) }

IdsOf(items) == { item.index : item \in items }

Searched == last.op = "search"

\* What the indexed list answers to one term alone, in the current state.
Single(term) == TriedoList_search(tr, <<term>>).results

(***************************************************************************)
(* C1  A search of the indexed list with one word-term returns exactly the *)
(* items that are not completed and have a word the term is a prefix of.   *)
(***************************************************************************)
C1_SingleWordTermIsOpenPrefixMatch ==
    (Searched /\ Len(last.params) = 1 /\ last.params[1].kind = "RawWord") =>
        /\ ~last.tr_ret.panicked
        /\ last.tr_ret.results =
               { item \in ItemsOf(tr) :
                     ~item.done /\ HasWordWithPrefix(item, last.params[1].s) }

\* A one-word-term search that returns an open item while a completed item
\* has a word with the same prefix.
C1_Witness ==
    /\ Searched /\ last.params = <<RawWord(<<"b">>)>>
    /\ last.tr_ret.results # {}
    /\ \E item \in ItemsOf(tr) : item.done /\ HasWordWithPrefix(item, <<"b">>)

(***************************************************************************)
(* C2  A search with two terms [A, B] returns the intersection of what     *)
(* search([A]) and search([B]) return in the same state.                   *)
(***************************************************************************)
C2_TwoTermsIntersect ==
    (Searched /\ Len(last.params) = 2) =>
        /\ ~last.tr_ret.panicked
        /\ last.tr_ret.results = Single(last.params[1]) \cap Single(last.params[2])

\* A word-term and a tag-term, each matching something, whose intersection
\* differs from both single results.
C2_Witness ==
    /\ Searched /\ Len(last.params) = 2
    /\ last.params[1].kind = "RawWord" /\ last.params[2].kind = "RawTag"
    /\ Single(last.params[1]) # {} /\ Single(last.params[2]) # {}
    /\ last.tr_ret.results # Single(last.params[1])
    /\ last.tr_ret.results # Single(last.params[2])

(***************************************************************************)
(* C3  Once done_with_index(i) has returned Some(i), no later search whose *)
(* terms include a word-term returns item i, and i is in no node of the    *)
(* word index.                                                             *)
(***************************************************************************)
C3_CompletedNeverInWordSearch ==
    /\ (Searched /\ \E k \in 1..Len(last.params) : last.params[k].kind = "RawWord") =>
           IdsOf(last.tr_ret.results) \cap completed = {}
    /\ \A n \in 1..Len(tr.words.nodes) : tr.words.nodes[n].ids \cap completed = {}

\* A word-and-tag search made after a completion and a later push, whose tag
\* term alone still matches the completed item.
C3_Witness ==
    /\ Searched /\ Len(last.params) = 2
    /\ last.params[1].kind = "RawTag" /\ last.params[2].kind = "RawWord"
    /\ completed = {0} /\ pushes = 2
    /\ 0 \in IdsOf(Single(last.params[1]))
    /\ last.tr_ret.results # {}

(***************************************************************************)
(* C4  A search with one tag-term returns exactly the items, completed or  *)
(* not, that have a tag the term is a prefix of.                           *)
(***************************************************************************)
C4_SingleTagTermIgnoresDone ==
    (Searched /\ Len(last.params) = 1 /\ last.params[1].kind = "RawTag") =>
        /\ ~last.tr_ret.panicked
        /\ last.tr_ret.results =
               { item \in ItemsOf(tr) : HasTagWithPrefix(item, last.params[1].s) }

\* A one-tag-term search that returns a completed item.
C4_Witness ==
    /\ Searched /\ Len(last.params) = 1 /\ last.params[1].kind = "RawTag"
    /\ IdsOf(last.tr_ret.results) \cap completed # {}
    /\ \E item \in last.tr_ret.results : item.done

(***************************************************************************)
(* C5  The k-th push (counting from 0) returns identifier k on both lists, *)
(* and no two stored items share an identifier.                            *)
(***************************************************************************)
UniqueIds(self) ==
    \A m, n \in 1..Len(self.items) :
        m # n => self.items[m].index # self.items[n].index

C5_PushReturnsCreationOrder ==
    /\ last.op = "push" =>
           /\ last.tr_ret.index = pushes - 1
           /\ last.tl_ret.index = pushes - 1
    /\ UniqueIds(tr)
    /\ UniqueIds(tl)

\* A second push made after the first item was completed.
C5_Witness ==
    /\ last.op = "push" /\ pushes = 2
    /\ completed = {0}
    /\ last.tr_ret.index = 1

(***************************************************************************)
(* C6  search([]) on the indexed list returns nothing, whatever is stored. *)
(***************************************************************************)
C6_EmptyQueryIsEmpty ==
    (Searched /\ last.params = <<>>) =>
        (~last.tr_ret.panicked /\ last.tr_ret.results = {})

\* An empty query on a list that holds open, indexed items.
C6_Witness ==
    /\ Searched /\ last.params = <<>>
    /\ last.tr_ret.results = {}
    /\ \E item \in ItemsOf(tr) : ~item.done /\ item.description # <<>>

(***************************************************************************)
(* C7  done_with_index on an identifier no push has returned yet answers   *)
(* None and leaves both lists exactly as they were: items, done flags,     *)
(* counter, word index and tag index.                                      *)
(***************************************************************************)
C7_DoneOfUnknownIsNoOp ==
    [][(last'.op = "done_with_index" /\ last'.idx >= pushes) =>
           /\ last'.tr_ret = None
           /\ last'.tl_ret = None
           /\ tr' = tr
           /\ tl' = tl]_vars

\* A completion of an unknown identifier on a list that holds indexed items.
C7_Witness ==
    /\ last.op = "done_with_index" /\ last.idx >= pushes
    /\ last.tr_ret = None
    /\ pushes > 0
    /\ tr.words.nodes[1].ids # {}

(***************************************************************************)
(* C8  done_with_index(i) on an existing identifier returns Some(i); a     *)
(* repeat on the same identifier returns None or Some(i) and leaves both   *)
(* lists as the first call left them.                                      *)
(***************************************************************************)
C8_DoneIsIdempotent ==
    [][last'.op = "done_with_index" =>
           /\ last'.idx < pushes => (last'.tr_ret = Some(last'.idx) /\
                                     last'.tl_ret = Some(last'.idx))
           /\ last'.again => /\ last'.tr_ret \in {None, Some(last'.idx)}
                             /\ last'.tl_ret \in {None, Some(last'.idx)}
                             /\ tr' = tr
                             /\ tl' = tl]_vars

\* A repeated completion of an item that has words and tags.
C8_Witness ==
    /\ last.op = "done_with_index" /\ last.again
    /\ last.idx \in completed
    /\ \E item \in ItemsOf(tr) :
           item.index = last.idx /\ item.description # <<>> /\ item.tags # <<>>

(***************************************************************************)
(* C9  The scenario: push([buy, milk], [errand]) returns 0;                *)
(* push([buy, bread], []) returns 1; search([word buy]) = {0, 1};          *)
(* search([word buy, tag errand]) = {0}; done_with_index(0) = Some(0);     *)
(* then search([word buy]) = {1} and search([tag errand]) = {0}.           *)
(***************************************************************************)
ScenarioItems(done0) ==
    << TodoItem_new(0, <<buy, milk>>, <<errand>>, done0),
       TodoItem_new(1, <<buy, bread>>, <<>>, FALSE) >>

C9_Scenario ==
    /\ (last.op = "push" /\ pushes = 1 /\ last.description = <<buy, milk>>
            /\ last.tags = <<errand>>) =>
           last.tr_ret.index = 0
    /\ (last.op = "push" /\ tr.items = ScenarioItems(FALSE)) =>
           last.tr_ret.index = 1
    /\ (Searched /\ tr.items = ScenarioItems(FALSE)) =>
           /\ last.params = <<RawWord(buy)>> =>
                  IdsOf(last.tr_ret.results) = {0, 1}
           /\ last.params = <<RawWord(buy), RawTag(errand)>> =>
                  IdsOf(last.tr_ret.results) = {0}
    /\ (last.op = "done_with_index" /\ last.idx = 0
            /\ tr.items = ScenarioItems(TRUE)) =>
           last.tr_ret = Some(0)
    /\ (Searched /\ tr.items = ScenarioItems(TRUE)) =>
           /\ last.params = <<RawWord(buy)>> =>
                  IdsOf(last.tr_ret.results) = {1}
           /\ last.params = <<RawTag(errand)>> =>
                  IdsOf(last.tr_ret.results) = {0}

\* The end of the scenario: the tag search after item 0 was completed.
C9_Witness ==
    /\ tr.items = ScenarioItems(TRUE)
    /\ completed = {0}
    /\ Searched /\ last.params = <<RawTag(errand)>>
    /\ IdsOf(last.tr_ret.results) = {0}

(***************************************************************************)
(* C10  In both lists an item, once pushed, stays at its place with the    *)
(* same identifier, words and tags; its done flag only goes from false to  *)
(* true, and only by done_with_index on its identifier.                    *)
(***************************************************************************)
Lifecycle(old, new, call) ==
    /\ Len(new.items) >= Len(old.items)
    /\ \A n \in 1..Len(old.items) :
           /\ n <= Len(new.items)
           /\ new.items[n].index = old.items[n].index
           /\ new.items[n].description = old.items[n].description
           /\ new.items[n].tags = old.items[n].tags
           /\ old.items[n].done => new.items[n].done
           /\ new.items[n].done # old.items[n].done =>
                  (call.op = "done_with_index" /\ call.idx = old.items[n].index)

C10_ItemLifecycle ==
    [][Lifecycle(tl, tl', last') /\ Lifecycle(tr, tr', last')]_vars

\* A completed item that is still stored, after a later push and a search.
C10_Witness ==
    /\ Searched
    /\ Len(tr.items) = 2 /\ Len(tl.items) = 2
    /\ tr.items[1].done /\ tl.items[1].done
    /\ ~tr.items[2].done

(***************************************************************************)
(* C11  A search changes nothing: items, done flags, counters, word index  *)
(* and tag index of both lists are as before, and a search repeated right  *)
(* after itself returns the same items.                                    *)
(***************************************************************************)
C11_SearchHasNoSideEffects ==
    [][last'.op = "search" =>
           /\ tr' = tr
           /\ tl' = tl
           /\ (Searched /\ last.params = last'.params) =>
                  (last'.tr_ret = last.tr_ret /\ last'.tl_ret = last.tl_ret)]_vars

\* A search that returns a completed item by its tag while an open item is
\* stored too.
C11_Witness ==
    /\ Searched /\ Len(last.params) = 1 /\ last.params[1].kind = "RawTag"
    /\ \E item \in last.tr_ret.results : item.done
    /\ \E item \in ItemsOf(tr) : ~item.done
    /\ Len(last.tl_ret) = 0

(***************************************************************************)
(* C14  The two engines differ: with an open item holding the word "buy",  *)
(* search([word "uy"]) is matched by the baseline and not by the indexed   *)
(* list; with an open item, search([]) is non-empty on the baseline and    *)
(* empty on the indexed list; with a completed item tagged "errand",       *)
(* search([tag "errand"]) returns it on the indexed list only.             *)
(***************************************************************************)
SeqIds(items) == { items[n].index : n \in 1..Len(items) }

HasWord(item, w) == \E k \in 1..Len(item.description) : item.description[k] = w

HasTag(item, t) == \E k \in 1..Len(item.tags) : item.tags[k] = t

C14_EnginesDiffer ==
    /\ (Searched /\ last.params = <<RawWord(<<"u", "y">>)>>
            /\ \E item \in ItemsOf(tl) : ~item.done /\ HasWord(item, buy)) =>
           (SeqIds(last.tl_ret) # {} /\ IdsOf(last.tr_ret.results) = {})
    /\ (Searched /\ last.params = <<>> /\ \E item \in ItemsOf(tl) : ~item.done) =>
           (SeqIds(last.tl_ret) # {} /\ IdsOf(last.tr_ret.results) = {})
    /\ (Searched /\ last.params = <<RawTag(errand)>>
            /\ \E item \in ItemsOf(tr) : item.done /\ HasTag(item, errand)) =>
           SeqIds(last.tl_ret) # IdsOf(last.tr_ret.results)

\* The subsequence term "uy" answered differently by the two lists.
C14_Witness ==
    /\ Searched /\ last.params = <<RawWord(<<"u", "y">>)>>
    /\ SeqIds(last.tl_ret) # {}
    /\ IdsOf(last.tr_ret.results) = {}

(***************************************************************************)
(* C15  The baseline search never returns a completed item, whatever the   *)
(* terms, and for no terms it returns every item not completed.            *)
(***************************************************************************)
C15_BaselineSkipsDone ==
    Searched =>
        /\ \A n \in 1..Len(last.tl_ret) :
               ~last.tl_ret[n].done /\ last.tl_ret[n].index \notin completed
        /\ last.params = <<>> =>
               SeqIds(last.tl_ret) = { item.index : item \in { i \in ItemsOf(tl) : ~i.done } }

\* An empty query on the baseline with one completed and one open item.
C15_Witness ==
    /\ Searched /\ last.params = <<>>
    /\ completed # {}
    /\ Len(last.tl_ret) = 1
    /\ Len(tl.items) = 2

(***************************************************************************)
(* C17  In both lists the item at position n has identifier n and the      *)
(* counter equals the number of items; the binary search of                *)
(* done_with_index finds exactly the item asked for, and items[id] is the  *)
(* item whose identifier is id for every indexed id.                       *)
(***************************************************************************)
PositionIsId(self) ==
    /\ self.top_index = Len(self.items)
    /\ \A n \in 1..Len(self.items) : self.items[n].index = n - 1
    /\ \A idx \in DoneIds :
           LET r == binary_search_by_key(self.items, idx)
           IN  /\ r.ok <=> idx < Len(self.items)
               /\ r.ok => (r.n = idx /\ self.items[r.n + 1].index = idx)

C17_PositionIsIdentifier ==
    /\ PositionIsId(tl)
    /\ PositionIsId(tr)
    /\ Searched => \A item \in last.tr_ret.results :
                       tr.items[item.index + 1] = item

\* A completion of the second of two items, found by the binary search.
C17_Witness ==
    /\ last.op = "done_with_index" /\ last.idx = 1
    /\ last.tr_ret = Some(1) /\ last.tl_ret = Some(1)
    /\ tr.items[2].done /\ ~tr.items[1].done

(***************************************************************************)
(* C18  Every identifier in a node of the word index or the tag index      *)
(* belongs to a stored item, every identifier in the word index to an item *)
(* not done, and no search indexes the item sequence out of bounds.        *)
(***************************************************************************)
TrieIds(t) == UNION { t.nodes[n].ids : n \in 1..Len(t.nodes) }

C18_IndexWithinStore ==
    /\ \A id \in TrieIds(tr.words) \cup TrieIds(tr.tags) : id < Len(tr.items)
    /\ \A id \in TrieIds(tr.words) : id < Len(tr.items) => ~tr.items[id + 1].done
    /\ Searched => ~last.tr_ret.panicked

\* A search that materializes two items, one of them completed.
C18_Witness ==
    /\ Searched /\ ~last.tr_ret.panicked
    /\ Cardinality(last.tr_ret.results) = 2
    /\ completed # {}
    /\ TrieIds(tr.words) # {} /\ TrieIds(tr.tags) = {0, 1}

(***************************************************************************)
(* C19  For a non-empty query of word-terms only, what the indexed list    *)
(* returns is among what the baseline returns; with a tag-term this fails  *)
(* for a completed item tagged "errand" and the query [tag "errand"].      *)
(***************************************************************************)
WordsOnly(params) ==
    Len(params) > 0 /\ \A k \in 1..Len(params) : params[k].kind = "RawWord"

C19_IndexedWithinBaseline ==
    /\ (Searched /\ WordsOnly(last.params)) =>
           IdsOf(last.tr_ret.results) \subseteq SeqIds(last.tl_ret)
    /\ (Searched /\ last.params = <<RawTag(errand)>>
            /\ \E item \in ItemsOf(tr) : item.done /\ HasTag(item, errand)) =>
           ~(IdsOf(last.tr_ret.results) \subseteq SeqIds(last.tl_ret))

\* A two-word query the baseline answers with more items than the index.
C19_Witness ==
    /\ Searched /\ WordsOnly(last.params) /\ Len(last.params) = 2
    /\ last.params[1] = RawWord(<<"b">>)
    /\ SeqIds(last.tl_ret) # {}
    /\ IdsOf(last.tr_ret.results) # SeqIds(last.tl_ret)

(***************************************************************************)
(* C20  The result of a non-empty indexed search does not depend on the    *)
(* order of its terms nor on a term being repeated, and holds no item      *)
(* twice.                                                                  *)
(***************************************************************************)
C20_TermOrderAndRepeats ==
    /\ (Searched /\ Len(last.params) = 2) =>
           last.tr_ret = TriedoList_search(tr, <<last.params[2], last.params[1]>>)
    /\ (Searched /\ Len(last.params) = 1) =>
           last.tr_ret = TriedoList_search(tr, <<last.params[1], last.params[1]>>)
    /\ Searched => Cardinality(IdsOf(last.tr_ret.results))
                       = Cardinality(last.tr_ret.results)

\* Two different terms with different single results and a common item.
C20_Witness ==
    /\ Searched /\ Len(last.params) = 2
    /\ Single(last.params[1]) # Single(last.params[2])
    /\ last.tr_ret.results # {}
    /\ last.tr_ret.results # Single(last.params[1])

(***************************************************************************)
(* C12  On one trie, after any adds and deletes, search(P) returns exactly *)
(* the identifiers for which a key beginning with P was added since the    *)
(* identifier's last delete, for every P, the empty prefix included; a     *)
(* missing edge or an empty trie gives the empty set.                      *)
(***************************************************************************)
LiveWithPrefix(p) ==
    { id \in TrieIdSet : \E key \in TrieKeys : <<id, key>> \in ts.live /\ IsPrefix(p, key) }

C12_TrieSearchIsExact ==
    /\ ts.op = "search" => ts.ret = LiveWithPrefix(ts.key)
    /\ ts.trie.nodes[1].ids = LiveWithPrefix(<<>>)

\* A prefix search answered with one identifier in a trie that also holds
\* the nodes of a key whose identifiers have all been deleted.
C12_Witness ==
    /\ ts.op = "search" /\ ts.key = <<"b">>
    /\ ts.ret = {1}
    /\ ts.live = {<<1, buy>>}
    /\ Len(ts.trie.nodes) = 8

(***************************************************************************)
(* C13  Adding the same (identifier, key) twice is the same as adding it   *)
(* once: both indexes are what they would be had every item been pushed    *)
(* with its repeated words and tags removed, every search returns the same *)
(* identifiers, and one done_with_index purges an item with a repeated     *)
(* word from the word index.                                               *)
(***************************************************************************)
RECURSIVE Dedup(_)
Dedup(keys) ==
    IF keys = <<>> THEN <<>>
    ELSE LET front == Dedup(SubSeq(keys, 1, Len(keys) - 1))
             key   == keys[Len(keys)]
         IN  IF \E k \in 1..Len(front) : front[k] = key THEN front
             ELSE Append(front, key)

HasRepeat(keys) == Dedup(keys) # keys

\* The indexed list rebuilt from the stored items, each pushed without its
\* repeats and completed right away if it is done.
RECURSIVE Replayed(_, _)
Replayed(items, n) ==
    IF n = 0 THEN TriedoList_new
    ELSE LET item   == items[n]
             pushed == TriedoList_push(Replayed(items, n - 1),
                                       Dedup(item.description), Dedup(item.tags)).self
         IN  IF item.done THEN TriedoList_done_with_index(pushed, item.index).self
             ELSE pushed

C13_RepeatedAddIsAbsorbed ==
    LET once == Replayed(tr.items, Len(tr.items))
    IN  /\ tr.words = once.words
        /\ tr.tags = once.tags
        /\ Searched => IdsOf(last.tr_ret.results)
                           = IdsOf(TriedoList_search(once, last.params).results)
        /\ \A item \in ItemsOf(tr) :
               (item.done /\ HasRepeat(item.description)) =>
                   item.index \notin TrieIds(tr.words)

\* A completed item with a repeated word and a repeated tag, found by its
\* tag, beside an open item that is still in the word index.
C13_Witness ==
    /\ Searched /\ last.params = <<RawTag(<<"e">>)>>
    /\ \E item \in last.tr_ret.results :
           item.done /\ HasRepeat(item.description) /\ HasRepeat(item.tags)
    /\ TrieIds(tr.words) # {}
    /\ Single(RawWord(<<>>)) # {}

(***************************************************************************)
(* C16  Both drivers take the first line without running it and then run   *)
(* the other lines in input order, writing one line for each line run_line *)
(* yields a result for.  At the first line run_line yields nothing for,    *)
(* file_run aborts and runs no later line, while standard_run writes       *)
(* nothing for it and goes on.                                             *)
(***************************************************************************)
\* The positions lo..hi of the input whose line yields a result, in order.
Yielding(input, lo, hi) ==
    LET Yields(k) == input[k] = "result"
    IN  IF hi < lo THEN <<>>
        ELSE SelectSeq([k \in 1..(hi - lo + 1) |-> lo + k - 1], Yields)

\* The first line after the count that run_line yields nothing for, 0 if none.
FirstNothing(input) ==
    LET S == { k \in 2..Len(input) : input[k] = "nothing" }
    IN  IF S = {} THEN 0 ELSE CHOOSE k \in S : \A j \in S : k <= j

====
